---- MODULE Spec2Model ----
(***************************************************************************)
(* Background file-upload job system (src/src/workers): the Redis queue    *)
(* adapter, the distributed lock, FileUploadWorker::process_job, the two   *)
(* consumer loops and the shutdown flag.                                   *)
(*                                                                         *)
(* The specifications share the variables:                                 *)
(*   Spec      process_job calls on jobs popped from the main queue        *)
(*   LockSpec  the DistributedLock API used directly by lock handles       *)
(*   LockLiveSpec  one holder that acquires and then stops, its peers,     *)
(*             and the broker's clock under weak fairness                  *)
(*   PoolSpec  the consumer loops of both pools and the shutdown flag,     *)
(*             started on queues that already hold jobs                    *)
(*   DlqSpec   the DLQ consumers alone, on a DLQ holding any one job       *)
(*   WorkSpec  process_job calls and DLQ consumers side by side            *)
(*   MainSpec  main(): MainWorker start, Ctrl+C, signal_shutdown,          *)
(*             await_shutdown and the return of main                       *)
(*   SupervisorSpec  MainWorker::start on every configuration              *)
(*   JobSpec   FileUploadJob and RedisQueue used by one client, with the   *)
(*             JSON codec and the wall clock; FifoSpec, the same client    *)
(*             on every job without retries                                *)
(*   MetricsSpec  the queue-depth samplers and log_metrics                 *)
(* In JobSpec and FifoSpec a list element is the JSON text of a job; in    *)
(* the other specifications it is the job that text decodes to.            *)
(***************************************************************************)
EXTENDS Integers, Sequences, FiniteSets, TLC

\* ---------------------------------------------------------------- bounds
MaxJobs == 2          \* jobs a producer creates
NumCalls == 2         \* tasks that each run dequeue_job + process_job once
MaxRetryBound == 2    \* WORKER_CONSUMER_MAX_RETRY ranges over 0..MaxRetryBound
LockTimeout == 2      \* lock_timeout, in ticks of the broker's clock
NumHolders == 2       \* DistributedLock handles in LockSpec
NumConsumers == 2     \* consumer tasks per pool in PoolSpec

EsignIds == {"E1", "E2"}
Calls == 1..NumCalls
Holders == 1..NumHolders
Consumers == 1..NumConsumers

\* document_url as its path segments; upload_file and is_recoverable_error
\* only ask whether it contains "expired".
OkUrl == <<"ok", "1">>
ExpiredUrl == <<"host", "expired", "1">>
Urls == {OkUrl, ExpiredUrl}
\* elapsed milliseconds a MetricsTimer can observe
ElapsedMs == {0, 1}
\* FILE_UPLOAD_WORKER_DLQ_WAIT_INTERVAL_IN_MILLISECONDS values
WaitIntervalsMs == {500, 10000}
DefaultDlqWaitMs == 10000
DefaultMaxRetry == 3
\* WORKER_GRACEFUL_SHUTDOWN_TIMEOUT_SECONDS: its default and the values tried
DefaultGracefulShutdownSecs == 30
GracefulShutdownSecs == {0, 1, DefaultGracefulShutdownSecs}
\* the sleep inside await_shutdown, in seconds
AwaitSleepSecs == 1
\* BACKGROUND_WORKER_CONSUMER_THREAD_COUNT and
\* FILE_UPLOAD_WORKER_DLQ_THREAD_COUNT: both default to 1
DefaultThreadCount == 1
Threads == 1..DefaultThreadCount
AppModes == {"api", "worker"}

VARIABLES
    max_retry,          \* config.worker_consumer_max_retry
    dlq_wait_interval,  \* config.file_upload_worker_dlq_wait_interval (ms)
    main_queue,         \* Redis list queue_name: index 1 is the head (LPUSH side)
    dlq,                \* Redis list dlq_name
    locks,              \* Redis keys upload_lock:<esign_id>: [value, ttl]
    next_job_id,        \* next Uuid::new_v4() for a job
    next_token,         \* next Uuid::new_v4() for a lock value
    metrics,            \* WorkerMetrics counters
    pc, job, lock_value, outcome,   \* process_job calls
    attempts,           \* history: UploadFailed results seen per job id
    lk,                 \* DistributedLock handles used directly
    shutdown_signal,    \* Arc<AtomicBool>
    upc,                \* upload consumers: position in run_consumer
    dpc, djob,          \* DLQ consumers: position in run_consumer, job in flight
    dlog,               \* DLQ consumers: log events of the latest process_dlq_job
    app_mode,           \* APP_MODE
    background_worker_thread_enabled,       \* worker_config, as read from env
    file_upload_worker_dlq_thread_enabled,  \* worker_config, as read from env
    redis_url_ok,       \* Client::open(config.redis_url) succeeds
    graceful_shutdown_timeout,              \* seconds
    mpc,                \* main(): position
    hpc,                \* the task main() spawns to handle Ctrl+C: position
    file_upload_worker, \* MainWorker.file_upload_worker: "None" or "Some"
    dlq_worker,         \* MainWorker.dlq_worker: "None" or "Some"
    start_result,       \* what MainWorker::start returned
    shutdown_result,    \* what MainWorker::await_shutdown returned
    utc_now,            \* the reading Utc::now() returns
    history,            \* history: job ids in push order and in pop order
    sampler,            \* upload consumers: queue-depth sampler spawned
    mlog                \* the latest log_metrics: whether it ran, its events

vars == <<max_retry, dlq_wait_interval, main_queue, dlq, locks, next_job_id,
          next_token, metrics, pc, job, lock_value, outcome, attempts, lk,
          shutdown_signal, upc, dpc, djob, dlog, app_mode,
          background_worker_thread_enabled,
          file_upload_worker_dlq_thread_enabled, redis_url_ok,
          graceful_shutdown_timeout, mpc, hpc, file_upload_worker, dlq_worker,
          start_result, shutdown_result, utc_now, history, sampler, mlog>>

configVars == <<max_retry, dlq_wait_interval, app_mode,
                background_worker_thread_enabled,
                file_upload_worker_dlq_thread_enabled, redis_url_ok,
                graceful_shutdown_timeout>>
callVars == <<pc, job, lock_value, outcome, attempts>>
poolVars == <<shutdown_signal, upc, dpc, djob, dlog>>
mainVars == <<mpc, hpc, file_upload_worker, dlq_worker, start_result,
              shutdown_result>>
auxVars == <<utc_now, history, sampler, mlog>>

\* ------------------------------------------------------------------ jobs
\* metadata: the JSON value under "error_type", if any
NoValue == [kind |-> "absent", text |-> ""]
StringValue(text) == [kind |-> "string", text |-> text]
NumberValue == [kind |-> "number", text |-> "42"]
EmptyMetadata == [error_type |-> NoValue]

\* document_name and document_type as their characters
DefaultName == <<"d", "o", "c">>
DefaultType == <<"p", "d", "f">>

NoJob == [id |-> 0, esign_id |-> "", document_url |-> <<>>,
          document_name |-> <<>>, document_type |-> <<>>, retry_count |-> 0,
          created_at |-> 0, updated_at |-> 0, metadata |-> EmptyMetadata]

\* FileUploadJob::new: retry_count 0, created_at and updated_at one reading
\* of Utc::now()
NewJob(id, esign_id, document_url, metadata) ==
    [id |-> id, esign_id |-> esign_id, document_url |-> document_url,
     document_name |-> DefaultName, document_type |-> DefaultType,
     retry_count |-> 0, created_at |-> utc_now, updated_at |-> utc_now,
     metadata |-> metadata]

\* FileUploadJob::increment_retry: retry_count += 1; updated_at = Utc::now()
increment_retry(j) ==
    [j EXCEPT !.retry_count = @ + 1, !.updated_at = utc_now]

\* FileUploadJob::get_lock_key: "upload_lock:" + esign_id, one key per esign_id
get_lock_key(j) == j.esign_id

\* document_url.contains("expired")
UrlContainsExpired(url) == \E i \in 1..Len(url) : url[i] = "expired"

InQueue(q, id) == \E i \in 1..Len(q) : q[i].id = id
Occurrences(q, id) == Cardinality({i \in 1..Len(q) : q[i].id = id})

\* ------------------------------------------------------- queue adapter
\* a push at the tail, the side BRPOP pops
lpush_tail(q, j) == Append(q, j)
\* LPUSH: push at the head
lpush(q, j) == <<j>> \o q
\* BRPOP: pop from the tail
rpop_value(q) == q[Len(q)]
\* a dequeue that reads the tail without removing it
rpop_rest_peek(q) == q
rpop_rest(q) == SubSeq(q, 1, Len(q) - 1)

\* an enqueue_job that pushes the job twice
enqueue_job_twice(q, j) == lpush(lpush(q, j), j)

\* RedisQueue::enqueue_job: LPUSH queue_name
enqueue_job(q, j) == lpush(q, j)

\* move_to_dlq that reports success without pushing
move_to_dlq_lost(q, j) == q

\* RedisQueue::move_to_dlq: LPUSH dlq_name
move_to_dlq(q, j) == lpush(q, j)

\* dequeue_dlq_job(config.file_upload_worker_dlq_wait_interval.as_secs()):
\* whole seconds of the configured milliseconds
timeout_seconds(ms) == ms \div 1000

\* ------------------------------------------------------------- metrics
ZeroMetrics ==
    [jobs_processed |-> 0, jobs_succeeded |-> 0, jobs_failed |-> 0,
     jobs_moved_to_dlq |-> 0, url_expired_errors |-> 0, general_errors |-> 0,
     total_processing_time_ms |-> 0, main_queue_depth |-> 0, dlq_depth |-> 0]

\* a record_job_processed that counts nothing
record_job_processed_skipped(m) == m
record_job_processed(m) == [m EXCEPT !.jobs_processed = @ + 1]
\* a record_job_succeeded that counts twice
record_job_succeeded_twice(m) == [m EXCEPT !.jobs_succeeded = @ + 2]
record_job_succeeded(m) == [m EXCEPT !.jobs_succeeded = @ + 1]
record_job_moved_to_dlq(m) == [m EXCEPT !.jobs_moved_to_dlq = @ + 1]
record_url_expired_error(m) == [m EXCEPT !.url_expired_errors = @ + 1]
\* a record_general_error that counts nothing
record_general_error_skipped(m) == m
record_general_error(m) == [m EXCEPT !.general_errors = @ + 1]
\* a record_processing_time that adds the elapsed time twice
record_processing_time_twice(m, ms) ==
    [m EXCEPT !.total_processing_time_ms = @ + ms + ms]
\* record_processing_time, called by Drop for MetricsTimer
record_processing_time(m, ms) == [m EXCEPT !.total_processing_time_ms = @ + ms]

\* update_queue_depth: both gauges are stored
update_queue_depth(m, main_depth, dlq_depth) ==
    [m EXCEPT !.main_queue_depth = main_depth, !.dlq_depth = dlq_depth]

\* the alert threshold on dlq_depth
DlqAlertDepth == 10
\* error_rate > 0.1, error_rate being failed / processed
HighErrorRate(failed, processed) == failed * 10 > processed

\* log_metrics: the events it emits; everything is inside
\* if jobs_processed > 0
log_metrics(m) ==
    IF m.jobs_processed > 0
    THEN {[level |-> "info", text |-> "worker_metrics"]}
         \cup (IF m.dlq_depth > DlqAlertDepth
               THEN {[level |-> "warn", text |-> "dlq_depth_high"]} ELSE {})
         \cup (IF HighErrorRate(m.jobs_failed, m.jobs_processed)
               THEN {[level |-> "warn", text |-> "error_rate_high"]} ELSE {})
    ELSE {}

\* log_metrics has not run; what a run leaves in the log
NoLog == [ran |-> FALSE, events |-> {}]
Logged(events) == [ran |-> TRUE, events |-> events]

\* ---------------------------------------------------- distributed lock
Absent == [value |-> 0, ttl |-> 0]

\* SET key value EX lock_timeout (the NX condition is commented out): the
\* key is written whatever it held, and the reply is OK.
SetOptions(store, key, value) ==
    [store |-> [store EXCEPT ![key] = [value |-> value, ttl |-> LockTimeout]],
     reply |-> "OK"]

\* the reply converted to bool: OK is true, nil is false
ReplyToBool(reply) == reply = "OK"

\* a release that deletes the key whatever it holds
ReleaseScript_Unconditional(store, key, value) ==
    [store |-> [store EXCEPT ![key] = Absent],
     result |-> IF store[key] /= Absent THEN 1 ELSE 0]

\* release(): GET == ARGV[1] ? DEL : 0
ReleaseScript(store, key, value) ==
    IF store[key].value = value
    THEN [store |-> [store EXCEPT ![key] = Absent], result |-> 1]
    ELSE [store |-> store, result |-> 0]

\* a refresh that extends the TTL of whatever the key holds
RefreshScript_Unconditional(store, key, value) ==
    IF store[key] /= Absent
    THEN [store |-> [store EXCEPT ![key].ttl = LockTimeout], result |-> 1]
    ELSE [store |-> store, result |-> 0]

\* refresh(): GET == ARGV[1] ? EXPIRE key lock_timeout : 0
RefreshScript(store, key, value) ==
    IF store[key].value = value
    THEN [store |-> [store EXCEPT ![key].ttl = LockTimeout], result |-> 1]
    ELSE [store |-> store, result |-> 0]

\* Drop for DistributedLock: block_on of a fresh runtime inside the running
\* task panics before release() is polled; the key is left as it is.
DropLock(store, key, value) == store

\* a clock under which no key ever expires
ExpireTick_Never(store) == store

\* one tick of the broker's clock: every key's TTL runs down, a key whose
\* TTL ends is deleted
ExpireTick(store) ==
    [k \in DOMAIN store |->
        IF store[k].ttl > 1 THEN [store[k] EXCEPT !.ttl = @ - 1] ELSE Absent]

\* ------------------------------------------------------------------ Init
\* a DistributedLock not yet built; calls is the parity of the API calls made
NoHandle == [lock_key |-> "", lock_value |-> 0, last |-> "none", calls |-> 0]

\* main() in worker mode with the default configuration, after start() has
\* returned Ok and before any Ctrl+C
Started ==
    /\ app_mode = "worker"
    /\ background_worker_thread_enabled = FALSE
    /\ file_upload_worker_dlq_thread_enabled = FALSE
    /\ redis_url_ok = TRUE
    /\ graceful_shutdown_timeout = DefaultGracefulShutdownSecs
    /\ mpc = "running"
    /\ hpc = "waiting"
    /\ file_upload_worker = "Some"
    /\ dlq_worker = "Some"
    /\ start_result = "Ok"
    /\ shutdown_result = "none"

\* the clock at its first reading, nothing pushed or popped, no sampler
\* spawned, nothing logged by log_metrics
NoHistory == [pushed_main |-> <<>>, popped_main |-> <<>>,
              pushed_dlq |-> <<>>, popped_dlq |-> <<>>]
Quiet ==
    /\ utc_now = 0
    /\ history = NoHistory
    /\ sampler = [c \in Consumers |-> FALSE]
    /\ mlog = NoLog

\* WorkerMetrics::new, MainWorker::new, no lock key set, no call made
NothingRun ==
    /\ locks = [k \in EsignIds |-> Absent]
    /\ next_token = 1
    /\ metrics = ZeroMetrics
    /\ pc = [p \in Calls |-> "idle"]
    /\ job = [p \in Calls |-> NoJob]
    /\ lock_value = [p \in Calls |-> 0]
    /\ outcome = [p \in Calls |-> "none"]
    /\ attempts = [i \in 1..MaxJobs |-> 0]
    /\ lk = [h \in Holders |-> NoHandle]
    /\ shutdown_signal = FALSE

\* nothing has run yet, every consumer task just spawned
Fresh ==
    /\ NothingRun
    /\ upc = [c \in Consumers |-> "start"]
    /\ dpc = [c \in Consumers |-> "start"]
    /\ djob = [c \in Consumers |-> NoJob]
    /\ dlog = [c \in Consumers |-> {}]
    /\ Started

Init ==
    /\ Quiet
    /\ max_retry \in 0..MaxRetryBound
    /\ dlq_wait_interval = DefaultDlqWaitMs
    /\ main_queue = <<>>
    /\ dlq = <<>>
    /\ next_job_id = 1
    /\ Fresh

\* ------------------------------------------------- producer (HTTP side)
\* FileUploadJob::new followed by enqueue_job
Produce ==
    /\ next_job_id <= MaxJobs
    /\ \E e \in EsignIds, u \in Urls :
          main_queue' = enqueue_job(main_queue, NewJob(next_job_id, e, u, EmptyMetadata))
    /\ next_job_id' = next_job_id + 1
    /\ UNCHANGED <<configVars, mainVars, auxVars, dlq, locks, next_token, metrics, callVars, lk,
                   poolVars>>

\* ----------------------------------------------------------- process_job
\* process_job returns: _timer and lock go out of scope
Return(p, how, store, m) ==
    /\ \E ms \in ElapsedMs : metrics' = record_processing_time(m, ms)
    /\ locks' = DropLock(store, get_lock_key(job'[p]), lock_value[p])
    /\ pc' = [pc EXCEPT ![p] = "done"]
    /\ outcome' = [outcome EXCEPT ![p] = how]

\* A task calls dequeue_job and, on Some(job), process_job, once (the
\* call in run_consumer's loop is commented out, see UploadPoll; the task
\* ends with the call, whose lock destructor panics). dequeue_job returns
\* Some(job); process_job starts the timer, counts the job and builds its
\* lock with a fresh value.
CallProcessJob(p) ==
    /\ pc[p] = "idle"
    /\ \A q \in Calls : q < p => pc[q] /= "idle"   \* tasks are numbered as they start
    /\ main_queue /= <<>>
    /\ job' = [job EXCEPT ![p] = rpop_value(main_queue)]
    /\ main_queue' = rpop_rest(main_queue)
    /\ metrics' = record_job_processed(metrics)
    /\ lock_value' = [lock_value EXCEPT ![p] = next_token]
    /\ next_token' = next_token + 1
    /\ pc' = [pc EXCEPT ![p] = "acquire"]
    /\ UNCHANGED <<configVars, mainVars, auxVars, dlq, locks, next_job_id, outcome, attempts, lk,
                   poolVars>>

\* lock.acquire(...).await?: one SET attempt
Acquire(p) ==
    /\ pc[p] = "acquire"
    /\ \/ \* broker error: ? returns it
          /\ job' = job
          /\ Return(p, "lock_error", locks, metrics)
       \/ LET r == SetOptions(locks, get_lock_key(job[p]), lock_value[p]) IN
          IF ReplyToBool(r.reply)
          THEN /\ locks' = r.store
               /\ pc' = [pc EXCEPT ![p] = "upload_file"]
               /\ UNCHANGED <<metrics, job, outcome>>
          ELSE \* not acquired: retry after lock_retry_interval, or give up
               \* once max_wait has elapsed and return Ok(()) with the job
               \* neither processed nor re-enqueued
               \/ /\ locks' = r.store
                  /\ UNCHANGED <<metrics, pc, job, outcome>>
               \/ /\ job' = job
                  /\ Return(p, "lock_miss", r.store, metrics)
    /\ UNCHANGED <<configVars, mainVars, auxVars, main_queue, dlq, next_job_id, next_token,
                   lock_value, attempts, lk, poolVars>>

\* upload_file without the expiry check
UploadResults_NoExpiryCheck(j) == {"Ok", "UploadFailed"}

\* upload_file(&job)
UploadResults(j) ==
    IF UrlContainsExpired(j.document_url)
    THEN {"DocumentUrlExpired"}
    ELSE {"Ok", "UploadFailed"}

\* the retry decision with <= for <
ShouldRetry_Inclusive(j, limit) == j.retry_count <= limit

\* the retry decision after increment_retry
ShouldRetry(j, limit) == j.retry_count < limit

\* upload_file returns and the match on its result runs up to the next await
UploadFile(p) ==
    /\ pc[p] = "upload_file"
    /\ \E result \in UploadResults(job[p]) :
        CASE result = "Ok" ->
                /\ job' = job
                /\ attempts' = attempts
                /\ Return(p, "success", locks, record_job_succeeded(metrics))
          [] result = "DocumentUrlExpired" ->
                /\ metrics' = record_job_moved_to_dlq(
                                  record_url_expired_error(metrics))
                /\ pc' = [pc EXCEPT ![p] = "move_to_dlq_expired"]
                /\ UNCHANGED <<job, attempts, locks, outcome>>
          [] result = "UploadFailed" ->
                /\ job' = [job EXCEPT ![p] = increment_retry(job[p])]
                /\ attempts' = [attempts EXCEPT ![job[p].id] = @ + 1]
                /\ IF ShouldRetry(job'[p], max_retry)
                   THEN /\ metrics' = record_general_error(metrics)
                        /\ pc' = [pc EXCEPT ![p] = "enqueue_job"]
                   ELSE /\ metrics' = record_job_moved_to_dlq(
                                          record_general_error(metrics))
                        /\ pc' = [pc EXCEPT ![p] = "move_to_dlq_exhausted"]
                /\ UNCHANGED <<locks, outcome>>
    /\ UNCHANGED <<configVars, mainVars, auxVars, main_queue, dlq, next_job_id, next_token,
                   lock_value, lk, poolVars>>

\* an enqueue_job whose broker error comes after the push took effect
EnqueueJob_ErrorAfterPush(p) ==
    /\ pc[p] = "enqueue_job"
    /\ job' = job
    /\ main_queue' = enqueue_job(main_queue, job[p])
    /\ \/ Return(p, "retried", locks, metrics)
       \/ Return(p, "enqueue_error", locks, metrics)
    /\ UNCHANGED <<configVars, mainVars, auxVars, dlq, next_job_id, next_token, lock_value,
                   attempts, lk, poolVars>>

\* queue.enqueue_job(&job).await?
EnqueueJob(p) ==
    /\ pc[p] = "enqueue_job"
    /\ job' = job
    /\ \/ /\ main_queue' = enqueue_job(main_queue, job[p])
          /\ Return(p, "retried", locks, metrics)
       \/ \* broker error: ? returns it
          /\ main_queue' = main_queue
          /\ Return(p, "enqueue_error", locks, metrics)
    /\ UNCHANGED <<configVars, mainVars, auxVars, dlq, next_job_id, next_token, lock_value,
                   attempts, lk, poolVars>>

\* queue.move_to_dlq(&job).await?
MoveToDlq(p) ==
    /\ pc[p] \in {"move_to_dlq_expired", "move_to_dlq_exhausted"}
    /\ job' = job
    /\ \/ /\ dlq' = move_to_dlq(dlq, job[p])
          /\ Return(p, IF pc[p] = "move_to_dlq_expired"
                       THEN "url_expired" ELSE "exhausted", locks, metrics)
       \/ \* broker error: ? returns it
          /\ dlq' = dlq
          /\ Return(p, "dlq_error", locks, metrics)
    /\ UNCHANGED <<configVars, mainVars, auxVars, main_queue, next_job_id, next_token, lock_value,
                   attempts, lk, poolVars>>

\* the broker's clock advances
Tick ==
    /\ \E k \in EsignIds : locks[k] /= Absent
    /\ locks' = ExpireTick(locks)
    /\ UNCHANGED <<configVars, mainVars, auxVars, main_queue, dlq, next_job_id, next_token,
                   metrics, callVars, lk, poolVars>>

Next ==
    \/ Produce
    \/ \E p \in Calls : CallProcessJob(p)
    \/ \E p \in Calls : Acquire(p)
    \/ \E p \in Calls : UploadFile(p)
    \/ \E p \in Calls : EnqueueJob(p)
    \/ \E p \in Calls : MoveToDlq(p)

Spec == Init /\ [][Next]_vars

\* =================================================================
\* Claims checked under Spec. Spec has no clock tick: every call in it
\* finishes within lock_timeout of acquiring its lock.
\* =================================================================
Max1(n) == IF n < 1 THEN 1 ELSE n

BrokerErrorOutcomes == {"lock_error", "enqueue_error", "dlq_error"}

\* C1: two process_job calls whose jobs have the same lock key are never
\* both inside upload_file at the same time.
C1_MutualExclusion ==
    \A p, q \in Calls :
        (p /= q /\ pc[p] = "upload_file" /\ pc[q] = "upload_file")
            => get_lock_key(job[p]) /= get_lock_key(job[q])

\* C4 as stated: a job that fails with UploadFailed is re-enqueued while
\* fewer than max_retry attempts have failed and goes to the DLQ after
\* exactly max_retry failed attempts, for every max_retry including 0; the
\* dlq-moves counter counts each such job once.
C4_RetryBoundAsStated ==
    /\ \A p \in Calls :
        /\ pc[p] = "enqueue_job" => attempts[job[p].id] < max_retry
        /\ pc[p] = "move_to_dlq_exhausted" => attempts[job[p].id] = max_retry
    /\ \A i \in 1..Len(dlq) :
        ~UrlContainsExpired(dlq[i].document_url)
            => attempts[dlq[i].id] = max_retry

\* C4 (amended): a job that fails with UploadFailed is re-enqueued while
\* fewer than max_retry attempts have failed and goes to the DLQ after
\* exactly max(1, max_retry) failed attempts (max_retry = 0 behaves as 1);
\* jobs_moved_to_dlq counts one for each call that took a DLQ branch.
C4_RetryBound ==
    /\ \A p \in Calls :
        /\ pc[p] = "enqueue_job" => attempts[job[p].id] < max_retry
        /\ pc[p] = "move_to_dlq_exhausted"
              => /\ attempts[job[p].id] = Max1(max_retry)
                 /\ job[p].retry_count = Max1(max_retry)
    /\ \A i \in 1..Len(dlq) :
        ~UrlContainsExpired(dlq[i].document_url)
            => /\ attempts[dlq[i].id] = Max1(max_retry)
               /\ dlq[i].retry_count = Max1(max_retry)
    /\ metrics.jobs_moved_to_dlq =
          Cardinality({p \in Calls :
              \/ pc[p] \in {"move_to_dlq_expired", "move_to_dlq_exhausted"}
              \/ outcome[p] \in {"url_expired", "exhausted", "dlq_error"}})

\* In Spec no call takes the lock-miss return of process_job (C6's case):
\* the SET of acquire() never replies nil.
NoLockMiss == \A p \in Calls : outcome[p] /= "lock_miss"

C4_Witness ==
    /\ max_retry = 2
    /\ \E i \in 1..Len(dlq) :
          /\ ~UrlContainsExpired(dlq[i].document_url)
          /\ attempts[dlq[i].id] = 2
    /\ metrics.jobs_moved_to_dlq = 1

\* C5: a call whose job's URL is expired goes from upload_file straight to
\* the DLQ push, with the job unchanged (retry_count included) and
\* url_expired_errors and jobs_moved_to_dlq each one higher; no step of the
\* call touches the main queue; the push, unless the broker fails it, puts
\* the job as popped at the head of the DLQ.
C5_UrlExpiredToDlq ==
    [][\A p \in Calls :
        /\ (pc[p] = "upload_file" /\ pc'[p] /= "upload_file"
                /\ UrlContainsExpired(job[p].document_url))
            => /\ pc'[p] = "move_to_dlq_expired"
               /\ job'[p] = job[p]
               /\ main_queue' = main_queue
               /\ metrics'.url_expired_errors = metrics.url_expired_errors + 1
               /\ metrics'.jobs_moved_to_dlq = metrics.jobs_moved_to_dlq + 1
               /\ metrics'.general_errors = metrics.general_errors
        /\ (pc[p] = "move_to_dlq_expired" /\ pc'[p] = "done")
            => /\ main_queue' = main_queue
               /\ metrics'.url_expired_errors = metrics.url_expired_errors
               /\ metrics'.jobs_moved_to_dlq = metrics.jobs_moved_to_dlq
               /\ outcome'[p] /= "dlq_error"
                    => /\ dlq' = <<job[p]>> \o dlq
                       /\ job[p].retry_count = 0
      ]_vars

C5_Witness ==
    \E p \in Calls :
        /\ outcome[p] = "url_expired"
        /\ InQueue(dlq, job[p].id)
        /\ metrics.url_expired_errors = 1
        /\ metrics.jobs_moved_to_dlq = 1

\* C7: when a call ends with a successful upload its job is in neither
\* queue, then and ever after, and the step that ends it raises
\* jobs_succeeded by exactly 1.
C7_SuccessCommits ==
    [][\A p \in Calls :
        outcome'[p] = "success"
            => /\ ~InQueue(main_queue', job'[p].id)
               /\ ~InQueue(dlq', job'[p].id)
               /\ outcome[p] /= "success"
                    => metrics'.jobs_succeeded = metrics.jobs_succeeded + 1
      ]_vars

C7_Witness ==
    \E p \in Calls :
        /\ outcome[p] = "success"
        /\ pc[p] = "done"
        /\ metrics.jobs_succeeded >= 1
        /\ main_queue /= <<>>

\* C8: a call that ends without a broker error leaves its job in exactly
\* one placement: committed (succeeded, in no queue), once in the main
\* queue and not in the DLQ, or once in the DLQ and not in the main queue.
C8_OnePlacement ==
    [][\A p \in Calls :
        (pc[p] /= "done" /\ pc'[p] = "done"
            /\ outcome'[p] \notin BrokerErrorOutcomes)
          => LET id == job[p].id
                 inMain == Occurrences(main_queue', id)
                 inDlq == Occurrences(dlq', id)
                 committed ==
                     metrics'.jobs_succeeded = metrics.jobs_succeeded + 1
             IN \/ committed /\ inMain = 0 /\ inDlq = 0
                \/ ~committed /\ inMain = 1 /\ inDlq = 0
                \/ ~committed /\ inMain = 0 /\ inDlq = 1
      ]_vars

C8_Witness ==
    \E p, q \in Calls :
        /\ outcome[p] = "retried"
        /\ outcome[q] = "exhausted"
        /\ InQueue(dlq, job[q].id)

\* C14: when a call that acquired the lock has returned, whatever its exit
\* path, the lock key no longer stores that call's lock_value.
C14_ReleasedOnReturn ==
    \A p \in Calls :
        (pc[p] = "done" /\ outcome[p] \notin {"lock_error", "lock_miss"})
            => locks[get_lock_key(job[p])].value /= lock_value[p]

\* =================================================================
\* LockSpec: lock handles calling the DistributedLock API
\* =================================================================
Called(h, result) ==
    lk' = [lk EXCEPT ![h].last = result, ![h].calls = 1 - @]

\* DistributedLock::new: a fresh random lock_value
LockNew(h) ==
    /\ lk[h].lock_value = 0
    /\ \A g \in Holders : g < h => lk[g].lock_value /= 0
    /\ \E k \in EsignIds :
          lk' = [lk EXCEPT ![h] = [lock_key |-> k, lock_value |-> next_token,
                                   last |-> "new", calls |-> 0]]
    /\ next_token' = next_token + 1
    /\ UNCHANGED <<configVars, mainVars, auxVars, main_queue, dlq, locks, next_job_id, metrics,
                   callVars, poolVars>>

\* acquire(): one pass of its loop
LockAcquire(h) ==
    /\ lk[h].lock_value /= 0
    /\ \/ /\ Called(h, "error")
          /\ locks' = locks
       \/ LET r == SetOptions(locks, lk[h].lock_key, lk[h].lock_value) IN
          /\ locks' = r.store
          /\ IF ReplyToBool(r.reply)
             THEN Called(h, "acquire_true")
             ELSE \* sleep(retry_interval) and loop, or max_wait has elapsed
                  \/ lk' = lk
                  \/ Called(h, "acquire_false")
    /\ UNCHANGED <<configVars, mainVars, auxVars, main_queue, dlq, next_job_id, next_token,
                   metrics, callVars, poolVars>>

\* release()
LockRelease(h) ==
    /\ lk[h].lock_value /= 0
    /\ \/ /\ Called(h, "error")
          /\ locks' = locks
       \/ LET r == ReleaseScript(locks, lk[h].lock_key, lk[h].lock_value) IN
          /\ locks' = r.store
          /\ Called(h, IF r.result = 1 THEN "release_true" ELSE "release_false")
    /\ UNCHANGED <<configVars, mainVars, auxVars, main_queue, dlq, next_job_id, next_token,
                   metrics, callVars, poolVars>>

\* refresh()
LockRefresh(h) ==
    /\ lk[h].lock_value /= 0
    /\ \/ /\ Called(h, "error")
          /\ locks' = locks
       \/ LET r == RefreshScript(locks, lk[h].lock_key, lk[h].lock_value) IN
          /\ locks' = r.store
          /\ Called(h, IF r.result = 1 THEN "refresh_true" ELSE "refresh_false")
    /\ UNCHANGED <<configVars, mainVars, auxVars, main_queue, dlq, next_job_id, next_token,
                   metrics, callVars, poolVars>>

LockNext ==
    \/ \E h \in Holders : LockNew(h)
    \/ \E h \in Holders : LockAcquire(h)
    \/ \E h \in Holders : LockRelease(h)
    \/ \E h \in Holders : LockRefresh(h)
    \/ Tick

LockInit ==
    /\ Quiet
    /\ max_retry = DefaultMaxRetry
    /\ dlq_wait_interval = DefaultDlqWaitMs
    /\ main_queue = <<>>
    /\ dlq = <<>>
    /\ next_job_id = 1
    /\ Fresh

LockSpec == LockInit /\ [][LockNext]_vars

\* C2: once a key stores a token, that token stays the stored one until the
\* key is deleted (released or expired): no acquire by another holder
\* replaces it or returns true meanwhile.
C2_AtMostOneHolder ==
    [][\A h \in Holders :
        LET k == lk[h].lock_key IN
        (lk[h].lock_value /= 0 /\ lk'[h].calls /= lk[h].calls
            /\ locks[k] /= Absent /\ locks[k].value /= lk[h].lock_value)
          => /\ lk'[h].last /= "acquire_true"
             /\ locks'[k].value = locks[k].value
      ]_vars

\* C3: a release() call deletes the key and returns true exactly when the
\* key stores the caller's lock_value; otherwise (key missing or holding
\* another value) it returns false and leaves every key as it was.
C3_ReleaseOwnOnly ==
    [][\A h \in Holders :
        LET k == lk[h].lock_key
            v == lk[h].lock_value
        IN (v /= 0 /\ lk'[h].calls /= lk[h].calls
                /\ lk'[h].last \in {"release_true", "release_false"})
             => IF locks[k].value = v
                THEN /\ lk'[h].last = "release_true"
                     /\ locks' = [locks EXCEPT ![k] = Absent]
                ELSE /\ lk'[h].last = "release_false"
                     /\ locks' = locks
      ]_vars

C3_Witness ==
    \E a, b \in Holders :
        /\ a /= b
        /\ lk[a].lock_key = lk[b].lock_key
        /\ lk[a].last = "release_false"
        /\ locks[lk[a].lock_key].value = lk[b].lock_value

\* =================================================================
\* PoolSpec: the consumer loops (run_consumer of both pools) and the
\* shutdown flag. The broker's lists are durable: the process starts on
\* whatever they hold, and nothing is pushed afterwards.
\* =================================================================
\* the i-th job found in the DLQ at startup: URL-expired jobs as pushed by
\* the url-expired arm, others with their retries used up
DeadJob(i) ==
    CASE i % 3 = 1 -> NewJob(i, "E1", ExpiredUrl, EmptyMetadata)
      [] i % 3 = 2 -> [NewJob(i, "E2", OkUrl,
                              [error_type |-> StringValue("rate_limited")])
                          EXCEPT !.retry_count = DefaultMaxRetry]
      [] OTHER -> [NewJob(i, "E1", OkUrl, EmptyMetadata)
                          EXCEPT !.retry_count = DefaultMaxRetry]

PoolInit ==
    /\ Quiet
    /\ max_retry = DefaultMaxRetry
    /\ dlq_wait_interval \in WaitIntervalsMs
    /\ main_queue \in {<<>>, <<NewJob(MaxJobs + 1, "E1", OkUrl, EmptyMetadata)>>}
    /\ dlq \in {[i \in 1..n |-> DeadJob(i)] : n \in 0..MaxJobs}
    /\ next_job_id = MaxJobs + 2
    /\ Fresh

brokerVars == <<main_queue, dlq, locks, next_job_id, next_token>>

\* a signal_shutdown that flips the flag
SignalShutdown_Toggle ==
    /\ shutdown_signal' = ~shutdown_signal
    /\ UNCHANGED <<configVars, mainVars, auxVars, brokerVars, metrics, callVars, lk,
                   upc, dpc, djob, dlog>>

\* MainWorker::signal_shutdown
SignalShutdown ==
    /\ shutdown_signal' = TRUE
    /\ UNCHANGED <<configVars, mainVars, auxVars, brokerVars, metrics, callVars, lk,
                   upc, dpc, djob, dlog>>

\* --- FileUploadWorker::run_consumer
\* ConnectionManager::new(client).await? and RedisQueue::new(..).await?
UploadStart(c) ==
    /\ upc[c] = "start"
    /\ \/ \* the connection fails: the task returns the error
          /\ upc' = [upc EXCEPT ![c] = "exited"]
          /\ UNCHANGED sampler
       \/ \* connected: the queue-depth sampler is spawned, then the loop
          /\ upc' = [upc EXCEPT ![c] = "check"]
          /\ sampler' = [sampler EXCEPT ![c] = TRUE]
    /\ UNCHANGED <<configVars, mainVars, utc_now, history, mlog, brokerVars,
                   metrics, callVars, lk, shutdown_signal, dpc, djob, dlog>>

\* top of the loop: the flag is loaded; set, the loop is left and the task
\* reports completion and exits
UploadCheck(c) ==
    /\ upc[c] = "check"
    /\ upc' = [upc EXCEPT ![c] = IF shutdown_signal THEN "exited" ELSE "polling"]
    /\ UNCHANGED <<configVars, mainVars, auxVars, brokerVars, metrics, callVars, lk,
                   shutdown_signal, dpc, djob, dlog>>

\* the body of the loop: two log lines and sleep(1000 ms); the dequeue and
\* the call of process_job are commented out
UploadPoll(c) ==
    /\ upc[c] = "polling"
    /\ upc' = [upc EXCEPT ![c] = "check"]
    /\ UNCHANGED <<configVars, mainVars, auxVars, brokerVars, metrics, callVars, lk,
                   shutdown_signal, dpc, djob, dlog>>

\* --- DlqWorker
\* a classification that looks at the URL only
is_recoverable_error_url_only(j) == UrlContainsExpired(j.document_url)

\* job.metadata.get("error_type") matched through as_str()
is_recoverable_error(j) ==
    \/ UrlContainsExpired(j.document_url)
    \/ /\ j.metadata.error_type.kind = "string"
       /\ j.metadata.error_type.text \in
             {"temporary_network_error", "rate_limited", "service_unavailable"}

\* handle_dlq_job: a coin for an expired URL, an error for anything else
handle_dlq_job(j) ==
    IF UrlContainsExpired(j.document_url) THEN {"Ok", "UploadFailed"}
    ELSE {"UploadFailed"}

DlqStart(c) ==
    /\ dpc[c] = "start"
    /\ \E next \in {"check", "exited"} : dpc' = [dpc EXCEPT ![c] = next]
    /\ UNCHANGED <<configVars, mainVars, auxVars, brokerVars, metrics, callVars, lk,
                   shutdown_signal, upc, djob, dlog>>

\* a top of the loop that goes on to the dequeue whatever the flag is
DlqCheck_IgnoresFlag(c) ==
    /\ dpc[c] = "check"
    /\ dpc' = [dpc EXCEPT ![c] = "brpop"]
    /\ UNCHANGED <<configVars, mainVars, auxVars, brokerVars, metrics, callVars, lk,
                   shutdown_signal, upc, djob, dlog>>

\* top of the loop: the flag is loaded; set, the loop is left; else
\* dequeue_dlq_job is called
DlqCheck(c) ==
    /\ dpc[c] = "check"
    /\ dpc' = [dpc EXCEPT ![c] = IF shutdown_signal THEN "exited" ELSE "brpop"]
    /\ UNCHANGED <<configVars, mainVars, auxVars, brokerVars, metrics, callVars, lk,
                   shutdown_signal, upc, djob, dlog>>

\* a tracing event: its level, what it says, and the job it prints with
\* {:?} (NoJob when it prints the job's id only)
LogEvent(level, text, payload) ==
    [level |-> level, text |-> text, payload |-> payload]

\* the events of process_dlq_job on job j when is_recoverable_error(j) is
\* recoverable and handle_dlq_job(j) returns r
process_dlq_job_events(j, recoverable, r) ==
    IF recoverable
    THEN IF r = "Ok"
         THEN {LogEvent("info", "recoverable", NoJob),
               LogEvent("info", "recovered", NoJob)}
         ELSE {LogEvent("info", "recoverable", NoJob),
               LogEvent("warn", "special_handling_failed", NoJob),
               LogEvent("error", "requires_manual_intervention", j),
               LogEvent("info", "completed", NoJob)}
    ELSE {LogEvent("warn", "non_recoverable", j),
          LogEvent("info", "completed", NoJob)}

\* BRPOP replies with an element; process_dlq_job starts and counts the job
DlqPop(c) ==
    /\ dpc[c] = "brpop"
    /\ dlq /= <<>>
    /\ djob' = [djob EXCEPT ![c] = rpop_value(dlq)]
    /\ dlq' = rpop_rest(dlq)
    /\ metrics' = record_job_processed(metrics)
    /\ dlog' = [dlog EXCEPT ![c] = {LogEvent("info", "processing", NoJob)}]
    /\ dpc' = [dpc EXCEPT ![c] = "process"]
    /\ UNCHANGED <<configVars, mainVars, auxVars, main_queue, locks, next_job_id, next_token,
                   callVars, lk, shutdown_signal, upc>>

\* BRPOP replies nil once its timeout has passed on an empty list; a
\* timeout of 0 never passes
DlqTimeout(c) ==
    /\ dpc[c] = "brpop"
    /\ dlq = <<>>
    /\ timeout_seconds(dlq_wait_interval) > 0
    /\ dpc' = [dpc EXCEPT ![c] = "check"]
    /\ UNCHANGED <<configVars, mainVars, auxVars, brokerVars, metrics, callVars, lk,
                   shutdown_signal, upc, djob, dlog>>

\* a broker error that ends the consumer task
DlqBrokerError_Exits(c) ==
    /\ dpc[c] = "brpop"
    /\ dpc' = [dpc EXCEPT ![c] = "exited"]
    /\ UNCHANGED <<configVars, mainVars, auxVars, brokerVars, metrics, callVars, lk,
                   shutdown_signal, upc, djob, dlog>>

\* BRPOP fails with a broker error: it is logged
DlqBrokerError(c) ==
    /\ dpc[c] = "brpop"
    /\ dpc' = [dpc EXCEPT ![c] = "backoff"]
    /\ UNCHANGED <<configVars, mainVars, auxVars, brokerVars, metrics, callVars, lk,
                   shutdown_signal, upc, djob, dlog>>

\* sleep(1000 ms) after the error
DlqBackoff(c) ==
    /\ dpc[c] = "backoff"
    /\ dpc' = [dpc EXCEPT ![c] = "check"]
    /\ UNCHANGED <<configVars, mainVars, auxVars, brokerVars, metrics, callVars, lk,
                   shutdown_signal, upc, djob, dlog>>

\* the rest of process_dlq_job; the job is dropped when it returns
DlqProcess(c) ==
    /\ dpc[c] = "process"
    /\ LET recoverable == is_recoverable_error(djob[c]) IN
       \E r \in (IF recoverable THEN handle_dlq_job(djob[c]) ELSE {"none"}) :
          /\ metrics' = IF r = "Ok" THEN record_job_succeeded(metrics)
                        ELSE record_general_error(metrics)
          /\ dlog' = [dlog EXCEPT ![c] =
                         @ \cup process_dlq_job_events(djob[c], recoverable, r)]
    /\ djob' = [djob EXCEPT ![c] = NoJob]
    /\ dpc' = [dpc EXCEPT ![c] = "check"]
    /\ UNCHANGED <<configVars, mainVars, auxVars, brokerVars, callVars, lk,
                   shutdown_signal, upc>>

\* a step of DLQ consumer c that needs no broker error
DlqStep(c) ==
    \/ DlqStart(c)
    \/ DlqCheck(c)
    \/ DlqPop(c)
    \/ DlqTimeout(c)
    \/ DlqBackoff(c)
    \/ DlqProcess(c)

UploadStep(c) ==
    \/ UploadStart(c)
    \/ UploadCheck(c)
    \/ UploadPoll(c)

PoolNext ==
    \/ SignalShutdown
    \/ \E c \in Consumers : UploadStep(c)
    \/ \E c \in Consumers : DlqStep(c)
    \/ \E c \in Consumers : DlqBrokerError(c)

PoolSpec == PoolInit /\ [][PoolNext]_vars

\* C9: an upload consumer's loop iteration that starts with the flag unset
\* and a job in the main queue dequeues it (and hands it to process_job):
\* the iteration does not end with the main queue as it found it.
C9_IterationDequeues ==
    [][\A c \in Consumers :
        (upc[c] = "polling" /\ upc'[c] = "check" /\ main_queue /= <<>>)
            => Len(main_queue') < Len(main_queue)
      ]_vars

\* C10: once the flag is set (and no job arrives), a consumer that has not
\* exited can always take a step of its loop towards the next check of the
\* flag without waiting for a broker error: none is blocked for ever.
C10_ShutdownNotBlocked ==
    shutdown_signal
        => /\ \A c \in Consumers : upc[c] = "exited" \/ ENABLED UploadStep(c)
           /\ \A c \in Consumers : dpc[c] = "exited" \/ ENABLED DlqStep(c)

\* =================================================================
\* MainSpec: main() from the loading of the configuration to its return,
\* with the pools MainWorker::start spawns (the default thread count each)
\* and the task that handles Ctrl+C.
\* =================================================================
\* worker_config_final: in worker mode both pools are forced on
worker_config_final(mode, main_enabled, dlq_enabled) ==
    [background_worker_thread_enabled |-> (mode = "worker") \/ main_enabled,
     file_upload_worker_dlq_thread_enabled |-> (mode = "worker") \/ dlq_enabled]

\* a start() that builds the DLQ pool only next to an upload pool
start_coupled(config, url_ok) ==
    LET both == /\ config.background_worker_thread_enabled
                /\ config.file_upload_worker_dlq_thread_enabled
    IN IF config.background_worker_thread_enabled /\ ~url_ok
       THEN [result |-> "Err", file_upload_worker |-> "None",
             dlq_worker |-> "None"]
       ELSE [result |-> "Ok",
             file_upload_worker |-> IF config.background_worker_thread_enabled
                                    THEN "Some" ELSE "None",
             dlq_worker |-> IF both THEN "Some" ELSE "None"]

\* MainWorker::start on configuration config: each enabled pool is built
\* (Client::open of redis_url, the ? returns its error) and started, the
\* upload pool first
start(config, url_ok) ==
    IF config.background_worker_thread_enabled /\ ~url_ok
    THEN [result |-> "Err", file_upload_worker |-> "None", dlq_worker |-> "None"]
    ELSE LET upload == IF config.background_worker_thread_enabled
                       THEN "Some" ELSE "None"
         IN IF config.file_upload_worker_dlq_thread_enabled /\ ~url_ok
            THEN [result |-> "Err", file_upload_worker |-> upload,
                  dlq_worker |-> "None"]
            ELSE [result |-> "Ok", file_upload_worker |-> upload,
                  dlq_worker |-> IF config.file_upload_worker_dlq_thread_enabled
                                 THEN "Some" ELSE "None"]

\* the consumer tasks a pool's start() spawns
Spawned(pool) ==
    [c \in Consumers |-> IF pool = "Some" /\ c \in Threads
                         THEN "start" ELSE "unspawned"]

\* what timeout(grace_period, sleep(1 s)) yields: the sleep's deadline is
\* taken at its first poll, no earlier than the timeout's own, so with equal
\* durations either timer can be the one found elapsed
await_shutdown(grace_period) ==
    IF grace_period < AwaitSleepSecs THEN {"Shutdown"}
    ELSE IF grace_period = AwaitSleepSecs THEN {"Ok", "Shutdown"}
    ELSE {"Ok"}

\* a task when the runtime is dropped
Cancelled(position) ==
    IF position \in {"unspawned", "exited", "done"} THEN position ELSE "cancelled"

MainInit ==
    /\ Quiet
    /\ max_retry = DefaultMaxRetry
    /\ dlq_wait_interval = DefaultDlqWaitMs
    /\ main_queue = <<>>
    /\ dlq \in {[i \in 1..n |-> DeadJob(i)] : n \in 0..MaxJobs}
    /\ next_job_id = MaxJobs + 1
    /\ NothingRun
    /\ upc = [c \in Consumers |-> "unspawned"]
    /\ dpc = [c \in Consumers |-> "unspawned"]
    /\ djob = [c \in Consumers |-> NoJob]
    /\ dlog = [c \in Consumers |-> {}]
    /\ app_mode \in AppModes
    /\ background_worker_thread_enabled \in BOOLEAN
    /\ file_upload_worker_dlq_thread_enabled \in BOOLEAN
    /\ redis_url_ok \in BOOLEAN
    /\ graceful_shutdown_timeout \in GracefulShutdownSecs
    /\ mpc = "boot"
    /\ hpc = "unspawned"
    /\ file_upload_worker = "None"
    /\ dlq_worker = "None"
    /\ start_result = "none"
    /\ shutdown_result = "none"

\* main() up to its wait for Ctrl+C: MainWorker::new(worker_config_final),
\* start() in worker mode or when the upload pool is enabled in the
\* environment; an error of start() is returned by main
MainStart ==
    /\ mpc = "boot"
    /\ LET config == worker_config_final(app_mode,
                         background_worker_thread_enabled,
                         file_upload_worker_dlq_thread_enabled)
           r == IF app_mode = "worker" \/ background_worker_thread_enabled
                THEN start(config, redis_url_ok)
                ELSE [result |-> "none", file_upload_worker |-> "None",
                      dlq_worker |-> "None"]
       IN /\ start_result' = r.result
          /\ file_upload_worker' = r.file_upload_worker
          /\ dlq_worker' = r.dlq_worker
          /\ IF r.result = "Err"
             THEN /\ mpc' = "exited"
                  /\ UNCHANGED <<upc, dpc, hpc>>
             ELSE /\ mpc' = "running"
                  /\ hpc' = "waiting"
                  /\ upc' = Spawned(r.file_upload_worker)
                  /\ dpc' = Spawned(r.dlq_worker)
    /\ UNCHANGED <<configVars, auxVars, brokerVars, metrics, callVars, lk,
                   shutdown_signal, djob, dlog, shutdown_result>>

\* Ctrl+C: signal::ctrl_c() completes for main() and for the handler task
CtrlC ==
    /\ mpc = "running"
    /\ mpc' = "interrupted"
    /\ hpc' = "signal"
    /\ UNCHANGED <<configVars, auxVars, brokerVars, metrics, callVars, lk, poolVars,
                   file_upload_worker, dlq_worker, start_result,
                   shutdown_result>>

\* the handler task: signal_shutdown(), then await_shutdown() up to its
\* timeout; in api mode both only when the upload pool is enabled in the
\* environment
HandlerSignal ==
    /\ hpc = "signal"
    /\ IF app_mode = "worker" \/ background_worker_thread_enabled
       THEN /\ shutdown_signal' = TRUE
            /\ hpc' = "await"
       ELSE /\ shutdown_signal' = shutdown_signal
            /\ hpc' = "done"
    /\ UNCHANGED <<configVars, auxVars, brokerVars, metrics, callVars, lk, upc, dpc,
                   djob, dlog, mpc, file_upload_worker, dlq_worker,
                   start_result, shutdown_result>>

\* await_shutdown() returns
AwaitShutdown ==
    /\ hpc = "await"
    /\ shutdown_result' \in await_shutdown(graceful_shutdown_timeout)
    /\ mlog' = IF shutdown_result' = "Ok"    \* Ok: the final log_metrics
               THEN Logged(log_metrics(metrics)) ELSE mlog
    /\ hpc' = "done"
    /\ UNCHANGED <<configVars, utc_now, history, sampler, brokerVars, metrics,
                   callVars, lk, poolVars, mpc, file_upload_worker, dlq_worker,
                   start_result>>

\* main() returns after Ctrl+C (worker mode: at once; api mode: when the
\* HTTP server has stopped) and its runtime is dropped: every task still
\* alive is dropped at the await it is suspended in. process_dlq_job has an
\* await only in handle_dlq_job's sleep for an expired URL.
MainReturn ==
    /\ mpc = "interrupted"
    /\ \A c \in Consumers :
          dpc[c] = "process" => UrlContainsExpired(djob[c].document_url)
    /\ mpc' = "exited"
    /\ hpc' = Cancelled(hpc)
    /\ upc' = [c \in Consumers |-> Cancelled(upc[c])]
    /\ dpc' = [c \in Consumers |-> Cancelled(dpc[c])]
    /\ UNCHANGED <<configVars, auxVars, brokerVars, metrics, callVars, lk,
                   shutdown_signal, djob, dlog, file_upload_worker,
                   dlq_worker, start_result, shutdown_result>>

MainNext ==
    \/ MainStart
    \/ CtrlC
    \/ HandlerSignal
    \/ AwaitShutdown
    \/ MainReturn
    \/ \E c \in Consumers : UploadStep(c)
    \/ \E c \in Consumers : DlqStep(c)
    \/ \E c \in Consumers : DlqBrokerError(c)

MainSpec == MainInit /\ [][MainNext]_vars

\* C11: a process_dlq_job call in flight while the shutdown flag is set is
\* not interrupted: the consumer's next move is the end of the call, with
\* its outcome recorded.
C11_InFlightCompletes ==
    [][\A c \in Consumers :
        (shutdown_signal /\ dpc[c] = "process" /\ dpc'[c] /= "process")
            => /\ dpc'[c] = "check"
               /\ \/ metrics'.jobs_succeeded = metrics.jobs_succeeded + 1
                  \/ metrics'.general_errors = metrics.general_errors + 1
      ]_vars

\* a consumer task that is no longer (or was never) running
Drained(position) == position \in {"unspawned", "exited"}

AllDrained(upcs, dpcs) ==
    \A c \in Consumers : Drained(upcs[c]) /\ Drained(dpcs[c])

\* C12: when await_shutdown() returns Ok, no consumer task of either pool
\* is still running its loop or inside a process call.
C12_OkOnlyWhenDrained ==
    [][(hpc = "await" /\ hpc' = "done" /\ shutdown_result' = "Ok")
          => AllDrained(upc', dpc')
      ]_vars

\* C13: await_shutdown() returns the shutdown error only if some consumer
\* is still running at the deadline, and returns Ok when every consumer has
\* exited, whatever graceful_shutdown_timeout is.
C13_TimeoutIffInFlight ==
    [][(hpc = "await" /\ hpc' = "done")
          => /\ AllDrained(upc, dpc) => shutdown_result' = "Ok"
             /\ shutdown_result' = "Shutdown" => ~AllDrained(upc, dpc)
      ]_vars

\* =================================================================
\* WorkSpec: process_job calls (as in Spec) next to the DLQ pool with its
\* default thread count, all on the one WorkerMetrics registry. Jobs the
\* calls move to the DLQ are popped by the DLQ consumer. The retry limit is
\* the largest one, under which a failing job is both retried and exhausted.
\* =================================================================
WorkInit ==
    /\ Quiet
    /\ max_retry = MaxRetryBound
    /\ dlq_wait_interval = DefaultDlqWaitMs
    /\ main_queue = <<>>
    /\ dlq = <<>>
    /\ next_job_id = 1
    /\ NothingRun
    /\ upc = [c \in Consumers |-> "unspawned"]
    /\ dpc = Spawned("Some")
    /\ djob = [c \in Consumers |-> NoJob]
    /\ dlog = [c \in Consumers |-> {}]
    /\ Started

WorkNext ==
    \/ Next
    \/ \E c \in Consumers : DlqStep(c)
    \/ \E c \in Consumers : DlqBrokerError(c)

WorkSpec == WorkInit /\ [][WorkNext]_vars

Counters ==
    {"jobs_processed", "jobs_succeeded", "jobs_failed", "jobs_moved_to_dlq",
     "url_expired_errors", "general_errors", "total_processing_time_ms"}

\* C15: in every state of the shared registry jobs_succeeded +
\* jobs_moved_to_dlq <= jobs_processed, and no step lowers any counter.
C15_MetricsConsistent ==
    /\ [](metrics.jobs_succeeded + metrics.jobs_moved_to_dlq
              <= metrics.jobs_processed)
    /\ [][\A f \in Counters : metrics'[f] >= metrics[f]]_vars

C15_Witness ==
    /\ metrics.jobs_moved_to_dlq >= 1
    /\ \E p \in Calls : outcome[p] = "success"
    /\ metrics.jobs_succeeded = 2
    /\ metrics.jobs_succeeded + metrics.jobs_moved_to_dlq = metrics.jobs_processed
    /\ \E c \in Consumers : LogEvent("info", "recovered", NoJob) \in dlog[c]

\* =================================================================
\* DlqSpec: the DLQ consumers alone, on a DLQ whose oldest job is any job
\* of InputJobs.
\* =================================================================
RecoverableErrorTypes ==
    {"temporary_network_error", "rate_limited", "service_unavailable"}

\* values under metadata["error_type"]: none, a number, the three listed
\* strings, another string, a listed string in another case
ErrorTypeValues ==
    {NoValue, NumberValue}
        \cup {StringValue(t) : t \in RecoverableErrorTypes}
        \cup {StringValue("invalid_document"), StringValue("RATE_LIMITED")}

InputJobs ==
    {[NewJob(1, "E1", u, [error_type |-> v]) EXCEPT !.retry_count = n] :
        u \in Urls, v \in ErrorTypeValues, n \in {0, DefaultMaxRetry}}

DlqInit ==
    /\ Quiet
    /\ max_retry = DefaultMaxRetry
    /\ dlq_wait_interval = DefaultDlqWaitMs
    /\ main_queue = <<>>
    /\ dlq \in {<<j>> : j \in InputJobs} \cup {<<DeadJob(2), j>> : j \in InputJobs}
    /\ next_job_id = 3
    /\ NothingRun
    /\ upc = [c \in Consumers |-> "unspawned"]
    /\ dpc = [c \in Consumers |-> "start"]
    /\ djob = [c \in Consumers |-> NoJob]
    /\ dlog = [c \in Consumers |-> {}]
    /\ Started

DlqNext ==
    \/ \E c \in Consumers : DlqStep(c)
    \/ \E c \in Consumers : DlqBrokerError(c)

DlqSpec == DlqInit /\ [][DlqNext]_vars

\* C16: process_dlq_job takes the recoverable branch exactly for a job whose
\* URL contains "expired" or whose error_type is one of the three listed
\* strings, and the non-recoverable branch for every other job (no
\* error_type, a non-string one, any other string).
C16_RecoverableIff ==
    [][\A c \in Consumers :
        (dpc[c] = "process" /\ dpc'[c] = "check")
          => LET j == djob[c]
                 listed ==
                    \/ \E i \in 1..Len(j.document_url) :
                          j.document_url[i] = "expired"
                    \/ j.metadata.error_type \in
                          {StringValue("temporary_network_error"),
                           StringValue("rate_limited"),
                           StringValue("service_unavailable")}
             IN /\ LogEvent("info", "recoverable", NoJob) \in dlog'[c] <=> listed
                /\ LogEvent("warn", "non_recoverable", j) \in dlog'[c] <=> ~listed
      ]_vars

C16_Witness ==
    \E c, d \in Consumers :
        /\ LogEvent("info", "recoverable", NoJob) \in dlog[c]
        /\ LogEvent("info", "recovered", NoJob) \notin dlog[c]
        /\ \E j \in InputJobs :
              /\ j.metadata.error_type = NumberValue
              /\ LogEvent("warn", "non_recoverable", j) \in dlog[d]

\* C17: the pop of a DLQ job raises jobs_processed by 1; the rest of its
\* processing raises exactly one of jobs_succeeded and general_errors by 1,
\* touches no queue and leaves the job in none; no step pushes to a queue.
C17_DlqJobDropped ==
    [][/\ main_queue' = main_queue
       /\ Len(dlq') <= Len(dlq)
       /\ \A c \in Consumers :
            /\ (dpc[c] = "brpop" /\ dpc'[c] = "process")
                 => /\ metrics'.jobs_processed = metrics.jobs_processed + 1
                    /\ djob'[c] = dlq[Len(dlq)]
                    /\ Len(dlq') = Len(dlq) - 1
            /\ (dpc[c] = "process" /\ dpc'[c] = "check")
                 => /\ dlq' = dlq
                    /\ ~InQueue(dlq', djob[c].id)
                    /\ ~InQueue(main_queue', djob[c].id)
                    /\ djob'[c] = NoJob
                    /\ metrics'.jobs_processed = metrics.jobs_processed
                    /\ metrics'.jobs_moved_to_dlq = metrics.jobs_moved_to_dlq
                    /\ \/ /\ metrics'.jobs_succeeded = metrics.jobs_succeeded + 1
                          /\ metrics'.general_errors = metrics.general_errors
                       \/ /\ metrics'.jobs_succeeded = metrics.jobs_succeeded
                          /\ metrics'.general_errors = metrics.general_errors + 1
      ]_vars

C17_Witness ==
    /\ dlq = <<>>
    /\ \A c \in Consumers : djob[c] = NoJob
    /\ metrics.jobs_processed = 2
    /\ metrics.jobs_succeeded = 1
    /\ metrics.general_errors = 1

\* C18: a DLQ job that is not recovered (non-recoverable, or its recovery
\* failed) has, when its processing ends, a log event at error level that
\* prints the whole job.
C18_UnrecoveredLoggedAtError ==
    [][\A c \in Consumers :
        (dpc[c] = "process" /\ dpc'[c] = "check"
            /\ metrics'.jobs_succeeded = metrics.jobs_succeeded)
          => \E e \in dlog'[c] : e.level = "error" /\ e.payload = djob[c]
      ]_vars

\* =================================================================
\* SupervisorSpec: a MainWorker built as main() builds it (the worker-mode
\* override included) on any configuration, then start(), signal_shutdown()
\* any number of times, and the consumers start() spawned.
\* =================================================================
SupervisorInit ==
    /\ Quiet
    /\ max_retry = DefaultMaxRetry
    /\ dlq_wait_interval = DefaultDlqWaitMs
    /\ main_queue = <<>>
    /\ dlq \in {[i \in 1..n |-> DeadJob(i)] : n \in 0..MaxJobs}
    /\ next_job_id = MaxJobs + 1
    /\ NothingRun
    /\ upc = [c \in Consumers |-> "unspawned"]
    /\ dpc = [c \in Consumers |-> "unspawned"]
    /\ djob = [c \in Consumers |-> NoJob]
    /\ dlog = [c \in Consumers |-> {}]
    /\ app_mode \in AppModes
    /\ background_worker_thread_enabled \in BOOLEAN
    /\ file_upload_worker_dlq_thread_enabled \in BOOLEAN
    /\ redis_url_ok \in BOOLEAN
    /\ graceful_shutdown_timeout = DefaultGracefulShutdownSecs
    /\ mpc = "boot"
    /\ hpc = "unspawned"
    /\ file_upload_worker = "None"
    /\ dlq_worker = "None"
    /\ start_result = "none"
    /\ shutdown_result = "none"

\* MainWorker::new(worker_config_final) followed by start()
SupervisorStart ==
    /\ mpc = "boot"
    /\ LET r == start(worker_config_final(app_mode,
                          background_worker_thread_enabled,
                          file_upload_worker_dlq_thread_enabled),
                      redis_url_ok)
       IN /\ start_result' = r.result
          /\ file_upload_worker' = r.file_upload_worker
          /\ dlq_worker' = r.dlq_worker
          /\ upc' = Spawned(r.file_upload_worker)
          /\ dpc' = Spawned(r.dlq_worker)
    /\ mpc' = "running"
    /\ UNCHANGED <<configVars, auxVars, brokerVars, metrics, callVars, lk,
                   shutdown_signal, djob, dlog, hpc, shutdown_result>>

SupervisorNext ==
    \/ SupervisorStart
    \/ SignalShutdown
    \/ \E c \in Consumers : UploadStep(c)
    \/ \E c \in Consumers : DlqStep(c)
    \/ \E c \in Consumers : DlqBrokerError(c)

SupervisorSpec == SupervisorInit /\ [][SupervisorNext]_vars

\* C19: a start() that returns Ok has built and started the upload pool
\* exactly when main_enabled is true and the DLQ pool exactly when
\* dlq_enabled is true, each whatever the other flag is; a pool is never
\* built for a flag that is false, and start() fails only on an enabled
\* pool's construction; in worker mode both flags are true at start.
C19_PoolsFollowFlags ==
    [][(mpc = "boot" /\ mpc' /= "boot")
        => LET main_enabled ==
                   app_mode = "worker" \/ background_worker_thread_enabled
               dlq_enabled ==
                   app_mode = "worker" \/ file_upload_worker_dlq_thread_enabled
           IN /\ file_upload_worker' = "Some" => main_enabled
              /\ dlq_worker' = "Some" => dlq_enabled
              /\ start_result' = "Ok"
                   => /\ file_upload_worker' = "Some" <=> main_enabled
                      /\ dlq_worker' = "Some" <=> dlq_enabled
                      /\ \A c \in Threads :
                            /\ upc'[c] = "start" <=> main_enabled
                            /\ dpc'[c] = "start" <=> dlq_enabled
              /\ start_result' /= "Ok"
                   => ~redis_url_ok /\ (main_enabled \/ dlq_enabled)
              /\ app_mode = "worker" => main_enabled /\ dlq_enabled
      ]_vars

C19_Witness ==
    /\ app_mode = "api"
    /\ ~background_worker_thread_enabled
    /\ file_upload_worker_dlq_thread_enabled
    /\ start_result = "Ok"
    /\ file_upload_worker = "None"
    /\ dlq_worker = "Some"
    /\ \E c \in Consumers : dpc[c] = "process"

\* C20: no step clears the shutdown flag, a signal_shutdown() call leaves
\* it set, and a call made when it is already set changes nothing at all.
C20_SignalIdempotent ==
    /\ [][shutdown_signal => shutdown_signal']_vars
    /\ [][SignalShutdown => shutdown_signal']_vars
    /\ [](shutdown_signal
            => ENABLED SignalShutdown /\ ~ENABLED <<SignalShutdown>>_vars)

C20_Witness ==
    /\ shutdown_signal
    /\ \E c \in Consumers : dpc[c] = "exited"
    /\ \E c \in Consumers : upc[c] \notin {"unspawned", "exited"}

\* ---------------------------------------------------------------- codec
\* The JSON text of a job, as the text of each member of the object. A text
\* is a sequence of characters; a model value that is one string ("E1", a
\* URL segment) counts as one character.
Digit == <<"0", "1", "2", "3", "4", "5", "6", "7", "8", "9">>
Quote == "\""
Backslash == "\\"
JobFields == {"id", "esign_id", "document_url", "document_name",
              "document_type", "retry_count", "created_at", "updated_at",
              "metadata"}

\* an unsigned integer in decimal
RECURSIVE Digits(_)
Digits(n) ==
    IF n < 10 THEN <<Digit[n + 1]>>
    ELSE Append(Digits(n \div 10), Digit[(n % 10) + 1])

IsDigit(ch) == \E d \in 0..9 : Digit[d + 1] = ch
DigitValue(ch) == CHOOSE d \in 0..9 : Digit[d + 1] = ch
IsNumberText(text) ==
    /\ Len(text) >= 1
    /\ \A i \in 1..Len(text) : IsDigit(text[i])
    /\ Len(text) > 1 => text[1] /= "0"

RECURSIVE FromDigits(_)
FromDigits(text) ==
    IF Len(text) = 1 THEN DigitValue(text[1])
    ELSE 10 * FromDigits(SubSeq(text, 1, Len(text) - 1))
         + DigitValue(text[Len(text)])

\* a string's characters with no escaping
Escape_None(chars) == chars

\* a string's characters, quote and backslash escaped
RECURSIVE Escape(_)
Escape(chars) ==
    IF chars = <<>> THEN <<>>
    ELSE (IF Head(chars) \in {Quote, Backslash}
          THEN <<Backslash, Head(chars)>> ELSE <<Head(chars)>>)
         \o Escape(Tail(chars))

StringText(chars) == <<Quote>> \o Escape(chars) \o <<Quote>>

RECURSIVE WellEscaped(_)
WellEscaped(text) ==
    IF text = <<>> THEN TRUE
    ELSE IF Head(text) = Backslash
         THEN /\ Len(text) >= 2
              /\ text[2] \in {Quote, Backslash}
              /\ WellEscaped(SubSeq(text, 3, Len(text)))
         ELSE Head(text) /= Quote /\ WellEscaped(Tail(text))

Inner(text) == SubSeq(text, 2, Len(text) - 1)
IsStringText(text) ==
    /\ Len(text) >= 2
    /\ text[1] = Quote
    /\ text[Len(text)] = Quote
    /\ WellEscaped(Inner(text))

RECURSIVE Unescape(_)
Unescape(text) ==
    IF text = <<>> THEN <<>>
    ELSE IF Head(text) = Backslash
         THEN <<text[2]>> \o Unescape(SubSeq(text, 3, Len(text)))
         ELSE <<Head(text)>> \o Unescape(Tail(text))

StringOf(text) == Unescape(Inner(text))

\* metadata: an object with at most the member error_type
MetadataText(m) ==
    CASE m.error_type.kind = "absent" -> <<"{", "}">>
      [] m.error_type.kind = "string" ->
            <<"{", "error_type", ":">> \o StringText(<<m.error_type.text>>)
            \o <<"}">>
      [] OTHER -> <<"{", "error_type", ":", m.error_type.text, "}">>

IsMetadataText(text) ==
    \/ text = <<"{", "}">>
    \/ /\ Len(text) >= 5
       /\ SubSeq(text, 1, 3) = <<"{", "error_type", ":">>
       /\ text[Len(text)] = "}"
       /\ \/ Len(text) = 5 /\ text[4] \notin {Quote, Backslash}
          \/ /\ IsStringText(SubSeq(text, 4, Len(text) - 1))
             /\ Len(StringOf(SubSeq(text, 4, Len(text) - 1))) = 1

MetadataOf(text) ==
    IF text = <<"{", "}">> THEN EmptyMetadata
    ELSE IF Len(text) = 5
         THEN [error_type |-> [kind |-> "number", text |-> text[4]]]
         ELSE [error_type |->
                  StringValue(StringOf(SubSeq(text, 4, Len(text) - 1))[1])]

\* FileUploadJob::to_json: serde_json::to_string(self)
to_json(j) ==
    [id |-> StringText(Digits(j.id)),
     esign_id |-> StringText(<<j.esign_id>>),
     document_url |-> StringText(j.document_url),
     document_name |-> StringText(j.document_name),
     document_type |-> StringText(j.document_type),
     retry_count |-> Digits(j.retry_count),
     created_at |-> StringText(Digits(j.created_at)),
     updated_at |-> StringText(Digits(j.updated_at)),
     metadata |-> MetadataText(j.metadata)]

\* what serde_json::from_str accepts as a FileUploadJob: every member
\* present with a text of its type (members it does not know are ignored)
Decodable(e) ==
    /\ JobFields \subseteq DOMAIN e
    /\ \A f \in {"id", "created_at", "updated_at"} :
          IsStringText(e[f]) /\ IsNumberText(StringOf(e[f]))
    /\ \A f \in {"esign_id", "document_url", "document_name", "document_type"} :
          IsStringText(e[f])
    /\ Len(StringOf(e.esign_id)) = 1
    /\ IsNumberText(e.retry_count)
    /\ IsMetadataText(e.metadata)

\* FileUploadJob::from_json: serde_json::from_str(json)
from_json(e) ==
    IF Decodable(e)
    THEN [ok |-> TRUE,
          job |-> [id |-> FromDigits(StringOf(e.id)),
                   esign_id |-> StringOf(e.esign_id)[1],
                   document_url |-> StringOf(e.document_url),
                   document_name |-> StringOf(e.document_name),
                   document_type |-> StringOf(e.document_type),
                   retry_count |-> FromDigits(e.retry_count),
                   created_at |-> FromDigits(StringOf(e.created_at)),
                   updated_at |-> FromDigits(StringOf(e.updated_at)),
                   metadata |-> MetadataOf(e.metadata)]]
    ELSE [ok |-> FALSE, job |-> NoJob]

\* ------------------------------------------- JobSpec: one queue client
\* One client of FileUploadJob and RedisQueue: it creates jobs and enqueues
\* them and dequeues from either list; a job from the main queue it
\* re-enqueues after increment_retry, moves to the DLQ or drops, as
\* process_job does; a job from the DLQ it drops, as process_dlq_job does. The lists hold JSON
\* texts here. The wall clock Utc::now() reads is the host's: it advances,
\* and it can be set back. JobSpec follows one job under a moving clock,
\* FifoSpec every job, without retries, under a clock that stands still.
Times == {0, 1}

\* the fields a producer chooses
JobShapes ==
    {[document_url |-> OkUrl, document_name |-> DefaultName,
      metadata |-> EmptyMetadata],
     [document_url |-> ExpiredUrl, document_name |-> <<"a", Quote, "b">>,
      metadata |-> [error_type |-> StringValue("rate_limited")]],
     [document_url |-> OkUrl, document_name |-> <<Backslash, Quote>>,
      metadata |-> [error_type |-> NumberValue]]}

\* a list element that is not the JSON text of a job: retry_count is a string
ForeignElement ==
    [to_json(NoJob) EXCEPT !.retry_count = StringText(<<"three">>)]

QueueNames == {"main", "dlq"}

\* nothing pushed yet, or one element of another producer on one list
ClientInit ==
    /\ utc_now = 0
    /\ sampler = [c \in Consumers |-> FALSE]
    /\ mlog = NoLog
    /\ dlq_wait_interval = DefaultDlqWaitMs
    /\ \E foreign \in QueueNames \cup {"none"} :
          /\ main_queue = IF foreign = "main" THEN <<ForeignElement>> ELSE <<>>
          /\ dlq = IF foreign = "dlq" THEN <<ForeignElement>> ELSE <<>>
          /\ history = [NoHistory EXCEPT
                          !.pushed_main = IF foreign = "main" THEN <<NoJob>> ELSE <<>>,
                          !.pushed_dlq = IF foreign = "dlq" THEN <<NoJob>> ELSE <<>>]
    /\ NothingRun
    /\ upc = [c \in Consumers |-> "unspawned"]
    /\ dpc = [c \in Consumers |-> "unspawned"]
    /\ djob = [c \in Consumers |-> NoJob]
    /\ dlog = [c \in Consumers |-> {}]
    /\ Started

\* the last job a producer creates, retried up to MaxRetryBound
JobInit ==
    /\ max_retry = MaxRetryBound
    /\ next_job_id = MaxJobs
    /\ ClientInit

\* every job, WORKER_CONSUMER_MAX_RETRY=0
FifoInit ==
    /\ max_retry = 0
    /\ next_job_id = 1
    /\ ClientInit

jobVars == <<configVars, mainVars, sampler, mlog, locks, next_token, metrics,
             lock_value, attempts, lk, shutdown_signal, upc, dpc, djob>>

\* history: what was pushed on a list, what a dequeue from it returned
Pushed(h, which, j) ==
    IF which = "main" THEN [h EXCEPT !.pushed_main = Append(@, j)]
    ELSE [h EXCEPT !.pushed_dlq = Append(@, j)]
Popped(h, which, j) ==
    IF which = "main" THEN [h EXCEPT !.popped_main = Append(@, j)]
    ELSE [h EXCEPT !.popped_dlq = Append(@, j)]

\* FileUploadJob::new, then enqueue_job: to_json and LPUSH queue_name
JobCreate ==
    /\ next_job_id <= MaxJobs
    /\ \E shape \in JobShapes :
        LET j == [NewJob(next_job_id, "E1", shape.document_url, shape.metadata)
                    EXCEPT !.document_name = shape.document_name]
        IN /\ main_queue' = lpush(main_queue, to_json(j))
           /\ history' = Pushed(history, "main", j)
    /\ next_job_id' = next_job_id + 1
    /\ UNCHANGED <<jobVars, utc_now, dlq, pc, job, outcome, dlog>>

\* dequeue_job / dequeue_dlq_job: BRPOP, then from_json on the element. An
\* element that does not decode is logged as the serde error and returned
\* as WorkerError::Json: the element itself has left the list. (A timeout
\* returns None, a broker error WorkerError::Redis: both change nothing.)
JobDequeue(which) ==
    /\ pc[1] = "idle"
    /\ LET q == IF which = "main" THEN main_queue ELSE dlq
           r == from_json(rpop_value(q))
       IN /\ q /= <<>>
          /\ IF which = "main"
             THEN main_queue' = rpop_rest(q) /\ UNCHANGED dlq
             ELSE dlq' = rpop_rest(q) /\ UNCHANGED main_queue
          /\ history' = Popped(history, which, r.job)
          /\ IF r.ok
             THEN /\ job' = [job EXCEPT ![1] = r.job]
                  /\ pc' = [pc EXCEPT ![1] = IF which = "main"
                                            THEN "holding" ELSE "holding_dlq"]
                  /\ outcome' = [outcome EXCEPT ![1] = "Some"]
                  /\ dlog' = [dlog EXCEPT ![1] = {}]
             ELSE /\ dlog' = [dlog EXCEPT ![1] =
                         {LogEvent("error", "failed_to_deserialize", NoJob)}]
                  /\ outcome' = [outcome EXCEPT ![1] = "Json"]
                  /\ UNCHANGED <<job, pc>>
    /\ UNCHANGED <<jobVars, utc_now, next_job_id>>

\* the upload failed: increment_retry on the job held, then enqueue_job
\* if retry_count < max_retry, else move_to_dlq
JobRetry ==
    /\ pc[1] = "holding"
    /\ LET j == increment_retry(job[1]) IN
       IF ShouldRetry(j, max_retry)
       THEN /\ main_queue' = lpush(main_queue, to_json(j))
            /\ history' = Pushed(history, "main", j)
            /\ UNCHANGED dlq
       ELSE /\ dlq' = lpush(dlq, to_json(j))
            /\ history' = Pushed(history, "dlq", j)
            /\ UNCHANGED main_queue
    /\ pc' = [pc EXCEPT ![1] = "idle"]
    /\ job' = [job EXCEPT ![1] = NoJob]
    /\ UNCHANGED <<jobVars, utc_now, next_job_id, outcome, dlog>>

\* the URL has expired: move_to_dlq on the job held, to_json and LPUSH
\* dlq_name
JobMoveToDlq ==
    /\ pc[1] = "holding"
    /\ dlq' = lpush(dlq, to_json(job[1]))
    /\ history' = Pushed(history, "dlq", job[1])
    /\ pc' = [pc EXCEPT ![1] = "idle"]
    /\ job' = [job EXCEPT ![1] = NoJob]
    /\ UNCHANGED <<jobVars, utc_now, main_queue, next_job_id, outcome, dlog>>

\* the job held is dropped
JobDrop ==
    /\ pc[1] \in {"holding", "holding_dlq"}
    /\ pc' = [pc EXCEPT ![1] = "idle"]
    /\ job' = [job EXCEPT ![1] = NoJob]
    /\ UNCHANGED <<jobVars, utc_now, main_queue, dlq, next_job_id, outcome,
                   history, dlog>>

\* the wall clock advances
ClockAdvance ==
    /\ utc_now + 1 \in Times
    /\ utc_now' = utc_now + 1
    /\ UNCHANGED <<jobVars, main_queue, dlq, next_job_id, pc, job, outcome,
                   history, dlog>>

\* the wall clock is set back (a clock correction on the host)
ClockSetBack ==
    /\ \E t \in Times : t < utc_now /\ utc_now' = t
    /\ UNCHANGED <<jobVars, main_queue, dlq, next_job_id, pc, job, outcome,
                   history, dlog>>

FifoNext ==
    \/ JobCreate
    \/ \E which \in QueueNames : JobDequeue(which)
    \/ JobRetry
    \/ JobMoveToDlq
    \/ JobDrop

JobNext ==
    \/ FifoNext
    \/ ClockAdvance
    \/ ClockSetBack

JobSpec == JobInit /\ [][JobNext]_vars
FifoSpec == FifoInit /\ [][FifoNext]_vars

\* the list of a name, before and after the step
ListOf(which) == IF which = "main" THEN main_queue ELSE dlq
PushedOn(which) ==
    IF which = "main" THEN history.pushed_main ELSE history.pushed_dlq
PoppedFrom(which) ==
    IF which = "main" THEN history.popped_main ELSE history.popped_dlq

\* C21: an element that is popped and fails to decode makes the dequeue
\* return the codec error, and the element is not lost: it is pushed on
\* the DLQ or a log event carries it.
C21_UndecodableKept ==
    [][\A which \in QueueNames :
        LET q == ListOf(which)
            after == IF which = "main" THEN main_queue' ELSE dlq'
        IN (/\ q /= <<>>
            /\ after = rpop_rest(q)
            /\ ~from_json(rpop_value(q)).ok)
           => /\ outcome'[1] = "Json"
              /\ \/ \E i \in 1..Len(dlq') : dlq'[i] = rpop_value(q)
                 \/ \E ev \in dlog'[1] : ev.payload /= NoJob]_vars

\* C23: a job's id never changes, increment_retry raises retry_count by
\* exactly 1 and never lowers updated_at, retry_count never decreases, and
\* updated_at >= created_at for every job.
C23_JobFieldInvariants ==
    /\ [](\A which \in QueueNames : \A i \in 1..Len(PushedOn(which)) :
            PushedOn(which)[i].updated_at >= PushedOn(which)[i].created_at)
    /\ [][\A which \in QueueNames :
            (pc[1] = "holding" /\ Len(PushedOn(which)') > Len(PushedOn(which)))
            => LET before == job[1]
                   after == PushedOn(which)'[Len(PushedOn(which)')]
               IN /\ after.id = before.id
                  /\ after.retry_count \in
                        {before.retry_count, before.retry_count + 1}
                  /\ after.updated_at >= before.updated_at
                  /\ after.created_at = before.created_at]_vars

C25_Fifo ==
    \A which \in QueueNames :
        /\ Len(PoppedFrom(which)) <= Len(PushedOn(which))
        /\ \A i \in 1..Len(PoppedFrom(which)) :
              PoppedFrom(which)[i].id = PushedOn(which)[i].id

\* every job went through the main queue and then the DLQ, in that order
C25_Witness ==
    /\ Len(history.popped_main) >= MaxJobs
    /\ Len(history.popped_dlq) >= MaxJobs
    /\ \E i, k \in 1..Len(history.popped_dlq) :
          /\ i < k
          /\ history.popped_dlq[i].id /= 0
          /\ history.popped_dlq[k].id /= 0
          /\ history.popped_dlq[i].id /= history.popped_dlq[k].id

\* C22: a dequeue on an empty list waits at most the configured interval
\* and then returns None, for every interval in milliseconds: the timeout
\* handed to the broker is never 0 (wait for ever) and never longer than
\* the interval.
C22_DequeueTimesOut ==
    \A c \in Consumers :
        (dpc[c] = "brpop" /\ dlq = <<>>)
        => /\ timeout_seconds(dlq_wait_interval) * 1000 <= dlq_wait_interval
           /\ ENABLED DlqTimeout(c)

\* the queue-depth sampler tasks spawned so far
Samplers == {c \in Consumers : sampler[c]}

\* C26: the upload pool started with N consumers has exactly one
\* queue-depth sampler task: never more than one, and one as soon as a
\* consumer runs its loop.
C26_OneSampler ==
    /\ Cardinality(Samplers) <= 1
    /\ (\E c \in Consumers : upc[c] \in {"check", "polling"})
          => Cardinality(Samplers) = 1

\* C27: a dequeue that returns a broker error or None does not end the
\* consumer: after an error it backs off and then returns to the check of
\* the flag, after None it returns to the check at once; neither changes a
\* queue or a metric.
C27_DequeueErrorContinues ==
    [][\A c \in Consumers :
        /\ (dpc[c] = "brpop" /\ dpc'[c] \notin {"brpop", "process"})
              => /\ dpc'[c] \in {"backoff", "check"}
                 /\ UNCHANGED <<main_queue, dlq, metrics>>
        /\ (dpc[c] = "backoff" /\ dpc'[c] /= "backoff")
              => /\ dpc'[c] = "check"
                 /\ UNCHANGED <<main_queue, dlq, metrics>>]_vars

\* a consumer backs off after a broker error while a job waits and after
\* a job was processed
C27_Witness ==
    \E c \in Consumers :
        /\ dpc[c] = "backoff"
        /\ dlq /= <<>>
        /\ metrics.jobs_processed >= 1

\* C28: when the re-enqueue or the DLQ push inside process_job fails with a
\* broker error, process_job returns that error and the job is in neither
\* queue from then on: no later step re-enqueues it.
C28_BrokerErrorDropsJob ==
    \A p \in Calls :
        outcome[p] \in {"enqueue_error", "dlq_error"}
        => /\ pc[p] = "done"
           /\ ~InQueue(main_queue, job[p].id)
           /\ ~InQueue(dlq, job[p].id)

\* one call lost its job on a failed re-enqueue, another on a failed DLQ
\* push, and later calls have run
C28_Witness ==
    /\ \E p \in Calls : outcome[p] = "enqueue_error" /\ job[p].retry_count >= 1
    /\ \E p \in Calls : outcome[p] = "dlq_error"
    /\ \A p \in Calls : pc[p] = "done"

\* C29: every process_job call adds its elapsed time to
\* total_processing_time_ms exactly once, on the step on which it returns,
\* whatever the exit path, and raises jobs_processed exactly once, on the
\* step on which it starts; no other step changes either.
C29_TimerOncePerCall ==
    [][LET starting == {p \in Calls : pc[p] = "idle" /\ pc'[p] /= "idle"}
           returning == {p \in Calls : pc[p] /= "done" /\ pc'[p] = "done"}
       IN /\ metrics'.jobs_processed
                = metrics.jobs_processed + Cardinality(starting)
          /\ Cardinality(returning) <= 1
          /\ metrics'.total_processing_time_ms - metrics.total_processing_time_ms
                \in (IF returning = {} THEN {0} ELSE ElapsedMs)]_vars

\* calls have returned on an error path and on another path, each with
\* one millisecond recorded
C29_Witness ==
    /\ \A p \in Calls : pc[p] = "done"
    /\ \E p \in Calls : outcome[p] = "lock_error"
    /\ \E p \in Calls : outcome[p] \in {"success", "retried", "dlq_error"}
    /\ metrics.total_processing_time_ms = NumCalls
    /\ metrics.jobs_processed = NumCalls

\* ------------------------------------- MetricsSpec: gauges and the logger
\* The upload consumers start and spawn their samplers, the samplers store
\* the list lengths in the gauges, and log_metrics runs (every 300 s in the
\* task MainWorker::start spawns), on counters that hold any of the values
\* below and on a DLQ below, at and above the alert threshold.
ProcessedValues == {0, 1, 10, 11}
FailedValues == {0, 1, 2}

MetricsInit ==
    /\ Quiet
    /\ max_retry = DefaultMaxRetry
    /\ dlq_wait_interval = DefaultDlqWaitMs
    /\ main_queue = <<>>
    /\ dlq \in {[i \in 1..n |-> DeadJob(i)] :
                  n \in {0, DlqAlertDepth, DlqAlertDepth + 1}}
    /\ next_job_id = DlqAlertDepth + 2
    /\ locks = [k \in EsignIds |-> Absent]
    /\ next_token = 1
    /\ \E processed \in ProcessedValues, failed \in FailedValues :
          metrics = [ZeroMetrics EXCEPT !.jobs_processed = processed,
                                        !.jobs_failed = failed]
    /\ pc = [p \in Calls |-> "idle"]
    /\ job = [p \in Calls |-> NoJob]
    /\ lock_value = [p \in Calls |-> 0]
    /\ outcome = [p \in Calls |-> "none"]
    /\ attempts = [i \in 1..MaxJobs |-> 0]
    /\ lk = [h \in Holders |-> NoHandle]
    /\ shutdown_signal = FALSE
    /\ upc = [c \in Consumers |-> "start"]
    /\ dpc = [c \in Consumers |-> "unspawned"]
    /\ djob = [c \in Consumers |-> NoJob]
    /\ dlog = [c \in Consumers |-> {}]
    /\ Started

\* the sampler of consumer c: get_queue_length, get_dlq_length and, both
\* Ok, update_queue_depth; then sleep(60 s)
SampleQueueDepth(c) ==
    /\ sampler[c]
    /\ metrics' = update_queue_depth(metrics, Len(main_queue), Len(dlq))
    /\ UNCHANGED <<configVars, mainVars, auxVars, brokerVars, callVars, lk,
                   poolVars>>

\* the metrics task: sleep(300 s), then log_metrics
LogMetrics ==
    /\ mlog' = Logged(log_metrics(metrics))
    /\ UNCHANGED <<configVars, mainVars, utc_now, history, sampler, brokerVars,
                   metrics, callVars, lk, poolVars>>

MetricsNext ==
    \/ \E c \in Consumers : UploadStart(c)
    \/ \E c \in Consumers : SampleQueueDepth(c)
    \/ LogMetrics

MetricsSpec == MetricsInit /\ [][MetricsNext]_vars

\* C30: every run of log_metrics emits a warning when dlq_depth > 10 and a
\* warning when failed / processed > 0.10, in every counter state,
\* jobs_processed = 0 included.
C30_AlertsEveryRun ==
    [][mlog' /= mlog
        => /\ metrics.dlq_depth > DlqAlertDepth
                => [level |-> "warn", text |-> "dlq_depth_high"]
                      \in mlog'.events
           /\ (/\ metrics.jobs_processed > 0
               /\ HighErrorRate(metrics.jobs_failed, metrics.jobs_processed))
                => [level |-> "warn", text |-> "error_rate_high"]
                      \in mlog'.events]_vars

\* C31: a single job whose upload fails k times with UploadFailed and then
\* succeeds, k < max_retry, takes exactly k + 1 process_job calls:
\* jobs_processed is k + 1, jobs_succeeded 1, general_errors k,
\* jobs_moved_to_dlq 0, the job's retry_count at the commit is k, and the
\* job is in neither queue.
C31_FailThenSucceed ==
    \A p \in Calls :
        (next_job_id = 2 /\ outcome[p] = "success" /\ attempts[1] < max_retry)
        => LET k == attempts[1] IN
           /\ metrics.jobs_processed = k + 1
           /\ metrics.jobs_succeeded = 1
           /\ metrics.general_errors = k
           /\ metrics.jobs_moved_to_dlq = 0
           /\ metrics.url_expired_errors = 0
           /\ job[p].id = 1
           /\ job[p].retry_count = k
           /\ ~InQueue(main_queue, 1)
           /\ ~InQueue(dlq, 1)

\* the one job failed as often as the calls allow and then succeeded
C31_Witness ==
    /\ next_job_id = 2
    /\ attempts[1] = NumCalls - 1
    /\ attempts[1] < max_retry
    /\ \E p \in Calls : outcome[p] = "success" /\ job[p].retry_count = NumCalls - 1

\* C32: refresh() resets the key's TTL to lock_timeout and returns true if
\* and only if the stored value is the caller's token; it never changes the
\* stored token, and on a mismatch or a missing key it changes nothing and
\* returns false.
C32_RefreshOwnOnly ==
    [][\A h \in Holders :
        (/\ lk'[h].calls /= lk[h].calls
         /\ lk'[h].last \in {"refresh_true", "refresh_false"})
        => LET k == lk[h].lock_key
               own == locks[k].value = lk[h].lock_value
           IN /\ lk'[h].last = "refresh_true" <=> own
              /\ own => locks' = [locks EXCEPT ![k].ttl = LockTimeout]
              /\ ~own => locks' = locks
              /\ locks'[k].value = locks[k].value]_vars

\* one holder refreshed its own lock after the TTL had run down, another
\* was refused on the same key
C32_Witness ==
    \E h, g \in Holders :
        /\ lk[h].last = "refresh_true"
        /\ lk[g].last = "refresh_false"
        /\ lk[h].lock_key = lk[g].lock_key
        /\ locks[lk[h].lock_key].value = lk[h].lock_value

\* ------------------------------- LockLiveSpec: a holder that goes silent
\* Holder 1 builds its lock, gets the reply of one acquire and then crashes:
\* it makes no further call. The other holders use the API as they like.
\* The broker's clock keeps running while a key is set.
Peers == Holders \ {1}

LockLiveNext ==
    \/ \E h \in Holders : LockNew(h)
    \/ lk[1].last = "new" /\ LockAcquire(1)
    \/ \E h \in Peers : LockAcquire(h)
    \/ \E h \in Peers : LockRelease(h)
    \/ \E h \in Peers : LockRefresh(h)
    \/ Tick

LockLiveSpec == LockInit /\ [][LockLiveNext]_vars /\ WF_vars(Tick)

\* C33: a holder that never releases does not block its peers for ever:
\* every record is written with an expiry of lock_timeout, the record of
\* the silent holder is gone after at most lock_timeout of the broker's
\* time, and an acquire on a key that holds no record returns true.
C33_CrashedHolderExpires ==
    /\ [](\A k \in EsignIds :
            locks[k] /= Absent => locks[k].ttl \in 1..LockTimeout)
    /\ [][\A h \in Holders :
            (/\ lk'[h].calls /= lk[h].calls
             /\ lk'[h].last \in {"acquire_true", "acquire_false"})
            => /\ locks'[lk[h].lock_key] =
                     [value |-> lk[h].lock_value, ttl |-> LockTimeout]
               /\ locks[lk[h].lock_key] = Absent
                     => lk'[h].last = "acquire_true"]_vars
    /\ \A k \in EsignIds :
          (lk[1].last = "acquire_true" /\ lk[1].lock_key = k
           /\ locks[k].value = lk[1].lock_value)
          ~> (locks[k].value /= lk[1].lock_value)

\* the silent holder's record has expired with no peer having made a call,
\* and the key is free
C33_Witness ==
    /\ lk[1].last = "acquire_true"
    /\ locks[lk[1].lock_key] = Absent
    /\ \A h \in Peers : lk[h].last \in {"none", "new"}
    /\ \E h \in Peers : lk[h].lock_key = lk[1].lock_key

\* C34: the flag is checked at the top of every iteration, before any
\* dequeue: a consumer that finds it set leaves the loop without another
\* dequeue, a dequeue is only ever issued from a check that found the flag
\* unset, and a job is only popped by a dequeue so issued.
C34_FlagCheckedBeforeDequeue ==
    [][\A c \in Consumers :
        /\ (shutdown_signal /\ dpc[c] = "check" /\ dpc'[c] /= "check")
              => dpc'[c] = "exited" /\ dlq' = dlq /\ djob'[c] = djob[c]
        /\ (shutdown_signal /\ upc[c] = "check" /\ upc'[c] /= "check")
              => upc'[c] = "exited" /\ main_queue' = main_queue
        /\ (dpc'[c] = "brpop" /\ dpc[c] /= "brpop")
              => dpc[c] = "check" /\ ~shutdown_signal
        /\ (upc'[c] = "polling" /\ upc[c] /= "polling")
              => upc[c] = "check" /\ ~shutdown_signal
        /\ (djob'[c] /= djob[c] /\ djob'[c] /= NoJob) => dpc[c] = "brpop"]_vars

\* a DLQ consumer that had processed a job found the flag set and left its
\* loop with a job still waiting
C34_Witness ==
    /\ shutdown_signal
    /\ dlq /= <<>>
    /\ metrics.jobs_processed >= 1
    /\ \E c \in Consumers : dpc[c] = "exited" /\ djob[c] = NoJob

\* the process_job calls and the DLQ consumers that hold job id in flight
InFlight(id) ==
    Cardinality({p \in Calls : pc[p] \notin {"idle", "done"} /\ job[p].id = id})
    + Cardinality({c \in Consumers : dpc[c] = "process" /\ djob[c].id = id})

\* C35: no job is duplicated: a job id occurs at most once in total across
\* the main queue, the DLQ and the jobs in flight inside a consumer.
C35_NoDuplicate ==
    \A id \in 1..MaxJobs :
        Occurrences(main_queue, id) + Occurrences(dlq, id) + InFlight(id) <= 1

\* a job that went through the main queue and the DLQ is in flight in a
\* DLQ consumer while another job is in flight in process_job
C35_Witness ==
    /\ \E c \in Consumers : dpc[c] = "process" /\ djob[c].id /= 0
    /\ \E p \in Calls : pc[p] = "upload_file"
    /\ \A id \in 1..MaxJobs :
          Occurrences(main_queue, id) + Occurrences(dlq, id) + InFlight(id) = 1

\* C36: jobs_moved_to_dlq equals the number of jobs pushed on the DLQ by
\* process_job, whenever no call is between the count and the push, a push
\* that failed with a broker error included. (Nothing pops the DLQ here:
\* the pushes are its length.)
C36_MovedToDlqCountsPushes ==
    (\A p \in Calls : pc[p] \in {"idle", "done"})
        => metrics.jobs_moved_to_dlq = Len(dlq)

\* C37: jobs_failed is raised once for every process_job call whose upload
\* fails, with DocumentUrlExpired or UploadFailed, so that it is not 0 once
\* a processed job has failed.
C37_FailedCountsFailures ==
    metrics.jobs_failed = metrics.url_expired_errors + metrics.general_errors

\* C38: in worker mode, once the process has exited after an interrupt, the
\* interrupt handler has run to its end: signal_shutdown() was called (the
\* flag is set) and await_shutdown() has returned.
C38_HandlerCompletesBeforeExit ==
    (app_mode = "worker" /\ start_result = "Ok" /\ mpc = "exited")
        => /\ hpc = "done"
           /\ shutdown_signal
           /\ shutdown_result /= "none"

\* C39: when dlq_enabled is true in the loaded configuration and the
\* broker URL is usable, the DLQ pool has been started once startup is
\* over, in api and in worker mode, whatever main_enabled is; and when a
\* pool was started, the interrupt handler's step after the interrupt is
\* the signal_shutdown() call.
C39_DlqPoolFollowsFlag ==
    /\ (mpc /= "boot" /\ redis_url_ok
            /\ (app_mode = "worker" \/ file_upload_worker_dlq_thread_enabled))
          => /\ dlq_worker = "Some"
             /\ start_result = "Ok"
    /\ (hpc \in {"await", "done"}
            /\ (file_upload_worker = "Some" \/ dlq_worker = "Some"))
          => shutdown_signal
====
